---- MODULE Spec2Model ----
(***************************************************************************)
(* Model of internal/reporegistry/reporegistry.go: a registry of           *)
(* repository definitions keyed by distribution and architecture, with     *)
(* optional image type tags, and its five query operations.                *)
(***************************************************************************)
EXTENDS Naturals, Sequences, FiniteSets, TLC

VARIABLES r, supplied, op, args, ret, found, err

vars == <<r, supplied, op, args, ret, found, err>>

(* ------------------------------ bounds -------------------------------- *)

\* longest repository sequence stored for one (distro, arch) pair
MaxRepos == 2

(* ------------------------------ inputs -------------------------------- *)

Distros == {"fedora", "centos"}
Arches == {"x86_64", "aarch64"}
ImageTypeNames == {"qcow2", "ami", "vhd"}
ConfigPaths == {<<"/etc/osbuild-composer">>, <<"/usr/share/osbuild-composer">>}

\* rpmmd.RepoConfig: only ImageTypeTags is interpreted, Name identifies it
RepoConfig(name, tags) == [Name |-> name, ImageTypeTags |-> tags]

RepoUniverse ==
    { RepoConfig("A", <<>>),
      RepoConfig("B", <<"qcow2">>),
      RepoConfig("C", <<"qcow2", "ami">>),
      RepoConfig("D", <<"ami", "qcow2", "ami">>),
      RepoConfig("E", <<"QCOW2">>) }

RepoSeqs == UNION { [1..n -> RepoUniverse] : n \in 0..MaxRepos }

RECURSIVE Reverse(_)
Reverse(s) == IF s = <<>> THEN <<>> ELSE Append(Reverse(Tail(s)), Head(s))

\* which architectures are keys under which distribution keys
Shapes == UNION { [dk -> SUBSET Arches] : dk \in SUBSET Distros }

\* the sequence a table of the family stores for a pair, from one seed
StoredSeq(d, a, s) ==
    IF d = "fedora"
    THEN (IF a = "x86_64" THEN s ELSE Reverse(s))
    ELSE (IF a = "x86_64" THEN (IF s = <<>> THEN <<>> ELSE Tail(s)) ELSE <<>>)

\* rpmmd.DistrosRepoConfigs: distro name -> arch name -> []RepoConfig
MkTable(shape, s) ==
    [d \in DOMAIN shape |-> [a \in shape[d] |-> StoredSeq(d, a, s)]]

DistrosRepoConfigs == { MkTable(shape, s) : shape \in Shapes, s \in RepoSeqs }

NonEmptyPairs(t) == \A d \in DOMAIN t : \A a \in DOMAIN t[d] : t[d][a] # <<>>

\* what rpmmd.LoadAllRepositories yields on success
LoadedTables == { t \in DistrosRepoConfigs : NonEmptyPairs(t) }

(* ---------------------------- descriptors ----------------------------- *)

\* an interface value holding nothing, and one holding a nil pointer
NilInterface == [kind |-> "nil"]
TypedNil == [kind |-> "typednil"]
Unset == {NilInterface, TypedNil}

DistroDescriptors == { [kind |-> "distro", name |-> n] : n \in Distros }
ArchDescriptors ==
    { [kind |-> "arch", name |-> n, distro |-> d] :
        n \in Arches, d \in Unset \cup DistroDescriptors }
ImageTypeDescriptors ==
    { [kind |-> "imagetype", name |-> n, arch |-> a] :
        n \in ImageTypeNames, a \in Unset \cup ArchDescriptors }

\* x == nil || reflect.ValueOf(x).IsNil()
IsNil(x) == x.kind = "nil" \/ x.kind = "typednil"

(* ------------------------------ errors -------------------------------- *)

NoError == [kind |-> "nil", msg |-> "", distro |-> "", arch |-> ""]

ErrNoArch ==
    [kind |-> "InvalidReferenceError",
     msg |-> "there is no architecture associated with the provided image type",
     distro |-> "", arch |-> ""]

ErrNoDistroOfImageType ==
    [kind |-> "InvalidReferenceError",
     msg |-> "there is no distribution associated with the architecture associated with the provided image type",
     distro |-> "", arch |-> ""]

ErrNoDistroOfArch ==
    [kind |-> "InvalidReferenceError",
     msg |-> "there is no distribution associated with the provided architecture",
     distro |-> "", arch |-> ""]

ErrNoRepos(distro, arch) ==
    [kind |-> "NotFoundError",
     msg |-> "there are no repositories for distribution and architecture",
     distro |-> distro, arch |-> arch]

ErrLoad ==
    [kind |-> "ConfigLoadError", msg |-> "", distro |-> "", arch |-> ""]

(* --------------------------- the registry ----------------------------- *)

NoRegistry == [kind |-> "none"]
RepoRegistry(t) == [kind |-> "registry", repos |-> t]

Result(repositories, e) == [repos |-> repositories, err |-> e]

\* variant: the arch lookup's found flag is dropped
DistroHasReposDistroOnly(reg, distro, arch) ==
    IF distro \notin DOMAIN reg.repos
    THEN [repos |-> <<>>, found |-> FALSE]
    ELSE LET distroRepos == reg.repos[distro] IN
         IF arch \in DOMAIN distroRepos
         THEN [repos |-> distroRepos[arch], found |-> TRUE]
         ELSE [repos |-> <<>>, found |-> TRUE]

\* variant: found is derived from the length of the stored sequence
DistroHasReposByLength(reg, distro, arch) ==
    IF distro \notin DOMAIN reg.repos
    THEN [repos |-> <<>>, found |-> FALSE]
    ELSE LET distroRepos == reg.repos[distro] IN
         IF arch \in DOMAIN distroRepos
         THEN [repos |-> distroRepos[arch], found |-> Len(distroRepos[arch]) > 0]
         ELSE [repos |-> <<>>, found |-> FALSE]

DistroHasRepos(reg, distro, arch) ==
    IF distro \notin DOMAIN reg.repos
    THEN [repos |-> <<>>, found |-> FALSE]
    ELSE LET distroRepos == reg.repos[distro] IN
         IF arch \in DOMAIN distroRepos
         THEN [repos |-> distroRepos[arch], found |-> TRUE]
         ELSE [repos |-> <<>>, found |-> FALSE]

\* variant: the includeTagged test is inverted
RECURSIVE ArchLoopInverted(_, _, _, _)
ArchLoopInverted(archRepos, i, includeTagged, repositories) ==
    IF i > Len(archRepos) THEN repositories
    ELSE LET repo == archRepos[i] IN
         IF includeTagged /\ Len(repo.ImageTypeTags) # 0
         THEN ArchLoopInverted(archRepos, i + 1, includeTagged, repositories)
         ELSE ArchLoopInverted(archRepos, i + 1, includeTagged, Append(repositories, repo))

\* the loop of ReposByArchName from index i on
RECURSIVE ArchLoop(_, _, _, _)
ArchLoop(archRepos, i, includeTagged, repositories) ==
    IF i > Len(archRepos) THEN repositories
    ELSE LET repo == archRepos[i] IN
         IF ~includeTagged /\ Len(repo.ImageTypeTags) # 0
         THEN ArchLoop(archRepos, i + 1, includeTagged, repositories)
         ELSE ArchLoop(archRepos, i + 1, includeTagged, Append(repositories, repo))

ReposByArchName(reg, distro, arch, includeTagged) ==
    LET hr == DistroHasRepos(reg, distro, arch) IN
    IF ~hr.found
    THEN Result(<<>>, ErrNoRepos(distro, arch))
    ELSE Result(ArchLoop(hr.repos, 1, includeTagged, <<>>), NoError)

\* variant: the distribution reference is not tested
ReposByArchUnchecked(reg, arch, includeTagged) ==
    ReposByArchName(reg, IF IsNil(arch.distro) THEN "" ELSE arch.distro.name,
                    arch.name, includeTagged)

\* variant: includeTagged is not passed on
ReposByArchAlwaysTagged(reg, arch, includeTagged) ==
    IF IsNil(arch.distro)
    THEN Result(<<>>, ErrNoDistroOfArch)
    ELSE ReposByArchName(reg, arch.distro.name, arch.name, TRUE)

ReposByArch(reg, arch, includeTagged) ==
    IF IsNil(arch.distro)
    THEN Result(<<>>, ErrNoDistroOfArch)
    ELSE ReposByArchName(reg, arch.distro.name, arch.name, includeTagged)

ToLower(str) == IF str = "QCOW2" THEN "qcow2" ELSE str

\* variant: tags are compared ignoring case
TagMatchesFold(imageNameTag, imageType) == ToLower(imageNameTag) = ToLower(imageType)

TagMatches(imageNameTag, imageType) == imageNameTag = imageType

\* variant: the inner loop goes on after a match
RECURSIVE TagLoopNoBreak(_, _, _, _)
TagLoopNoBreak(repo, j, imageType, repositories) ==
    IF j > Len(repo.ImageTypeTags) THEN repositories
    ELSE IF TagMatches(repo.ImageTypeTags[j], imageType)
         THEN TagLoopNoBreak(repo, j + 1, imageType, Append(repositories, repo))
         ELSE TagLoopNoBreak(repo, j + 1, imageType, repositories)

\* the inner loop of reposByImageTypeName from tag index j on
RECURSIVE TagLoop(_, _, _, _)
TagLoop(repo, j, imageType, repositories) ==
    IF j > Len(repo.ImageTypeTags) THEN repositories
    ELSE IF TagMatches(repo.ImageTypeTags[j], imageType)
         THEN Append(repositories, repo)
         ELSE TagLoop(repo, j + 1, imageType, repositories)

\* variant: untagged repositories are skipped instead of added
RECURSIVE ImageTypeLoopSkipUntagged(_, _, _, _)
ImageTypeLoopSkipUntagged(archRepos, i, imageType, repositories) ==
    IF i > Len(archRepos) THEN repositories
    ELSE LET repo == archRepos[i] IN
         IF Len(repo.ImageTypeTags) = 0
         THEN ImageTypeLoopSkipUntagged(archRepos, i + 1, imageType, repositories)
         ELSE ImageTypeLoopSkipUntagged(archRepos, i + 1, imageType,
                                        TagLoop(repo, 1, imageType, repositories))

\* the outer loop of reposByImageTypeName from index i on
RECURSIVE ImageTypeLoop(_, _, _, _)
ImageTypeLoop(archRepos, i, imageType, repositories) ==
    IF i > Len(archRepos) THEN repositories
    ELSE LET repo == archRepos[i] IN
         IF Len(repo.ImageTypeTags) = 0
         THEN ImageTypeLoop(archRepos, i + 1, imageType, Append(repositories, repo))
         ELSE ImageTypeLoop(archRepos, i + 1, imageType,
                            TagLoop(repo, 1, imageType, repositories))

\* variant: the error of ReposByArchName is not propagated
reposByImageTypeNameIgnoreErr(reg, distro, arch, imageType) ==
    LET ar == ReposByArchName(reg, distro, arch, TRUE) IN
    Result(ImageTypeLoop(ar.repos, 1, imageType, <<>>), NoError)

reposByImageTypeName(reg, distro, arch, imageType) ==
    LET ar == ReposByArchName(reg, distro, arch, TRUE) IN
    IF ar.err # NoError
    THEN Result(<<>>, ar.err)
    ELSE Result(ImageTypeLoop(ar.repos, 1, imageType, <<>>), NoError)

ReposByImageType(reg, imageType) ==
    IF IsNil(imageType.arch)
    THEN Result(<<>>, ErrNoArch)
    ELSE IF IsNil(imageType.arch.distro)
    THEN Result(<<>>, ErrNoDistroOfImageType)
    ELSE reposByImageTypeName(reg, imageType.arch.distro.name,
                              imageType.arch.name, imageType.name)

(* ------------------------------ actions ------------------------------- *)

Init ==
    /\ r = NoRegistry
    /\ supplied = <<>>
    /\ op = "none"
    /\ args = <<>>
    /\ ret = <<>>
    /\ found = FALSE
    /\ err = NoError

NewFails ==
    /\ r = NoRegistry
    /\ \E repoConfigPaths \in ConfigPaths :
        /\ op' = "New"
        /\ args' = <<repoConfigPaths>>
        /\ err' = ErrLoad
        /\ UNCHANGED <<r, supplied, ret, found>>

New ==
    /\ r = NoRegistry
    /\ \E repoConfigPaths \in ConfigPaths, repositories \in LoadedTables :
        /\ r' = RepoRegistry(repositories)
        /\ supplied' = repositories
        /\ op' = "New"
        /\ args' = <<repoConfigPaths>>
        /\ err' = NoError
        /\ UNCHANGED <<ret, found>>

NewFromDistrosRepoConfigs ==
    /\ r = NoRegistry
    /\ \E distrosRepoConfigs \in DistrosRepoConfigs :
        /\ r' = RepoRegistry(distrosRepoConfigs)
        /\ supplied' = distrosRepoConfigs
        /\ op' = "NewFromDistrosRepoConfigs"
        /\ args' = <<>>
        /\ err' = NoError
        /\ UNCHANGED <<ret, found>>

CallDistroHasRepos ==
    /\ r # NoRegistry
    /\ \E distro \in Distros, arch \in Arches :
        LET res == DistroHasRepos(r, distro, arch) IN
        /\ op' = "DistroHasRepos"
        /\ args' = <<distro, arch>>
        /\ ret' = res.repos
        /\ found' = res.found
        /\ err' = NoError
        /\ UNCHANGED <<r, supplied>>

\* variant: the result is filtered into the stored slice (archRepos[:0])
CallReposByArchNameInPlace ==
    /\ r # NoRegistry
    /\ \E distro \in Distros, arch \in Arches, includeTagged \in BOOLEAN :
        LET res == ReposByArchName(r, distro, arch, includeTagged)
            old == r.repos[distro][arch]
            overwritten == res.repos \o SubSeq(old, Len(res.repos) + 1, Len(old))
        IN
        /\ op' = "ReposByArchName"
        /\ args' = <<distro, arch, includeTagged>>
        /\ ret' = res.repos
        /\ found' = FALSE
        /\ err' = res.err
        /\ r' = IF res.err = NoError
                THEN [r EXCEPT !.repos[distro][arch] = overwritten]
                ELSE r
        /\ UNCHANGED supplied

CallReposByArchName ==
    /\ r # NoRegistry
    /\ \E distro \in Distros, arch \in Arches, includeTagged \in BOOLEAN :
        LET res == ReposByArchName(r, distro, arch, includeTagged) IN
        /\ op' = "ReposByArchName"
        /\ args' = <<distro, arch, includeTagged>>
        /\ ret' = res.repos
        /\ found' = FALSE
        /\ err' = res.err
        /\ UNCHANGED <<r, supplied>>

CallReposByArch ==
    /\ r # NoRegistry
    /\ \E arch \in ArchDescriptors, includeTagged \in BOOLEAN :
        LET res == ReposByArch(r, arch, includeTagged) IN
        /\ op' = "ReposByArch"
        /\ args' = <<arch, includeTagged>>
        /\ ret' = res.repos
        /\ found' = FALSE
        /\ err' = res.err
        /\ UNCHANGED <<r, supplied>>

CallReposByImageTypeName ==
    /\ r # NoRegistry
    /\ \E distro \in Distros, arch \in Arches, imageType \in ImageTypeNames :
        LET res == reposByImageTypeName(r, distro, arch, imageType) IN
        /\ op' = "reposByImageTypeName"
        /\ args' = <<distro, arch, imageType>>
        /\ ret' = res.repos
        /\ found' = FALSE
        /\ err' = res.err
        /\ UNCHANGED <<r, supplied>>

CallReposByImageType ==
    /\ r # NoRegistry
    /\ \E imageType \in ImageTypeDescriptors :
        LET res == ReposByImageType(r, imageType) IN
        /\ op' = "ReposByImageType"
        /\ args' = <<imageType>>
        /\ ret' = res.repos
        /\ found' = FALSE
        /\ err' = res.err
        /\ UNCHANGED <<r, supplied>>

Next ==
    \/ NewFails
    \/ New
    \/ NewFromDistrosRepoConfigs
    \/ CallDistroHasRepos
    \/ CallReposByArchName
    \/ CallReposByArch
    \/ CallReposByImageTypeName
    \/ CallReposByImageType

Spec == Init /\ [][Next]_vars

(* --------------------------- properties ------------------------------- *)

Constructed == r # NoRegistry

Present(d, a) == d \in DOMAIN r.repos /\ a \in DOMAIN r.repos[d]

Stored(d, a) == r.repos[d][a]

Range(s) == { s[i] : i \in DOMAIN s }

Untagged(repo) == repo.ImageTypeTags = <<>>

Applies(repo, t) ==
    \/ repo.ImageTypeTags = <<>>
    \/ \E j \in DOMAIN repo.ImageTypeTags : repo.ImageTypeTags[j] = t

RECURSIVE IsSubseq(_, _)
IsSubseq(s, t) ==
    IF s = <<>> THEN TRUE
    ELSE IF t = <<>> THEN FALSE
    ELSE IF Head(s) = Head(t) THEN IsSubseq(Tail(s), Tail(t))
    ELSE IsSubseq(s, Tail(t))

NameOps == {"DistroHasRepos", "ReposByArchName", "reposByImageTypeName"}
QueryOps == NameOps \cup {"ReposByArch", "ReposByImageType"}

\* the (distro, arch) names a successful query looked up
QDistro ==
    CASE op \in NameOps -> args[1]
      [] op = "ReposByArch" -> args[1].distro.name
      [] op = "ReposByImageType" -> args[1].arch.distro.name

QArch ==
    CASE op \in NameOps -> args[2]
      [] op = "ReposByArch" -> args[1].name
      [] op = "ReposByImageType" -> args[1].arch.name

\* C1: a stored repository of a present pair is in the result of
\* reposByImageTypeName(distro, arch, t) iff its tags are empty or contain
\* exactly t, for any string t.
C1_TagMatch ==
    (op = "reposByImageTypeName" /\ Present(args[1], args[2])) =>
        /\ err = NoError
        /\ \A i \in DOMAIN Stored(args[1], args[2]) :
             (Stored(args[1], args[2])[i] \in Range(ret))
                <=> Applies(Stored(args[1], args[2])[i], args[3])
        /\ Range(ret) \subseteq Range(Stored(args[1], args[2]))

C1_Witness ==
    /\ op = "reposByImageTypeName"
    /\ Present(args[1], args[2])
    /\ args[3] = "qcow2"
    /\ RepoConfig("E", <<"QCOW2">>) \in Range(Stored(args[1], args[2]))
    /\ RepoConfig("B", <<"qcow2">>) \in Range(ret)
    /\ RepoConfig("E", <<"QCOW2">>) \notin Range(ret)

\* C2: for a present pair ReposByArchName(distro, arch, true) is the full
\* stored sequence and ReposByArchName(distro, arch, false) is the
\* subsequence of its untagged repositories in their original order.
C2_ArchNameFilter ==
    (op = "ReposByArchName" /\ Present(args[1], args[2])) =>
        /\ err = NoError
        /\ args[3] => ret = Stored(args[1], args[2])
        /\ ~args[3] => ret = SelectSeq(Stored(args[1], args[2]), Untagged)

C2_Witness ==
    /\ op = "ReposByArchName"
    /\ Present(args[1], args[2])
    /\ ~args[3]
    /\ ret # <<>>
    /\ ret # Stored(args[1], args[2])

\* C3: DistroHasRepos returns found = true and the exact stored sequence
\* when the distro key and the arch key under it are present, and
\* found = false with an empty sequence otherwise.
C3_HasRepos ==
    op = "DistroHasRepos" =>
        IF Present(args[1], args[2])
        THEN found /\ ret = Stored(args[1], args[2])
        ELSE ~found /\ ret = <<>>

C3_Witness ==
    /\ op = "DistroHasRepos"
    /\ args[1] \in DOMAIN r.repos
    /\ args[2] \notin DOMAIN r.repos[args[1]]
    /\ DOMAIN r.repos[args[1]] # {}
    /\ ~found

\* C4: ReposByArch with an unset distribution reference and ReposByImageType
\* with an unset architecture or distribution reference fail with
\* InvalidReferenceError, never NotFoundError, whatever the table holds.
C4_InvalidReference ==
    /\ (op = "ReposByArch" /\ IsNil(args[1].distro)) =>
          (err.kind = "InvalidReferenceError" /\ ret = <<>>)
    /\ (op = "ReposByImageType"
          /\ (IsNil(args[1].arch) \/ IsNil(args[1].arch.distro))) =>
          (err.kind = "InvalidReferenceError" /\ ret = <<>>)

C4_Witness ==
    /\ op = "ReposByArch"
    /\ args[1].distro = TypedNil
    /\ DOMAIN r.repos = {}
    /\ err.kind = "InvalidReferenceError"

\* C5: ReposByArchName and reposByImageTypeName fail with NotFoundError
\* exactly when DistroHasRepos reports found = false, and every query that
\* returns an error returns no repositories with it.
C5_NotFound ==
    /\ op \in {"ReposByArchName", "reposByImageTypeName"} =>
          /\ (err.kind = "NotFoundError")
                <=> ~DistroHasRepos(r, args[1], args[2]).found
          /\ err # NoError => err = ErrNoRepos(args[1], args[2])
    /\ (op \in QueryOps /\ err # NoError) => ret = <<>>

C5_Witness ==
    /\ op = "reposByImageTypeName"
    /\ args[1] \in DOMAIN r.repos
    /\ args[2] \notin DOMAIN r.repos[args[1]]
    /\ err.kind = "NotFoundError"
    /\ ret = <<>>

\* C6 as stated: in every registry each (distro, arch) pair maps to a
\* non-empty sequence or is absent from the table.
C6_NonEmptyOrAbsent == Constructed => NonEmptyPairs(r.repos)

\* C6 as amended: the registry holds the supplied table as it is, a pair is
\* absent or maps to a sequence that may be empty, and DistroHasRepos tells
\* an unknown pair (found = false) from a known pair with an empty sequence
\* (found = true).
C6_KnownButEmpty ==
    Constructed =>
        /\ r.repos = supplied
        /\ op = "DistroHasRepos" =>
              /\ found <=> Present(args[1], args[2])
              /\ (Present(args[1], args[2]) /\ Stored(args[1], args[2]) = <<>>) =>
                    (found /\ ret = <<>>)

C6_Witness ==
    /\ op = "DistroHasRepos"
    /\ Present(args[1], args[2])
    /\ Stored(args[1], args[2]) = <<>>
    /\ found

\* C7: every sequence a query returns successfully is an order-preserving
\* subsequence of the stored sequence of the queried pair, with no entry
\* more often than stored, also when a tag sequence repeats the image type.
C7_Subsequence ==
    (op \in QueryOps /\ err = NoError /\ (op = "DistroHasRepos" => found)) =>
        /\ Present(QDistro, QArch)
        /\ IsSubseq(ret, Stored(QDistro, QArch))

C7_Witness ==
    /\ op = "reposByImageTypeName"
    /\ err = NoError
    /\ args[3] = "ami"
    /\ RepoConfig("D", <<"ami", "qcow2", "ami">>) \in Range(ret)
    /\ Len(ret) < Len(Stored(args[1], args[2]))

\* C8: no query changes the registry's table, which stays the table it was
\* constructed with, and a query repeated with the same arguments returns
\* the same result and error.
C8_TableUnchanged ==
    [][Constructed =>
          /\ r' = r
          /\ r'.repos = supplied'
          /\ (op' = op /\ args' = args) =>
                (ret' = ret /\ found' = found /\ err' = err)]_vars

C8_Witness ==
    /\ Constructed
    /\ op = "ReposByArchName"
    /\ ~args[3]
    /\ err = NoError
    /\ ret # r.repos[args[1]][args[2]]
    /\ r.repos = supplied

\* C9: with every reference set, ReposByArch and ReposByImageType return
\* the result and error of ReposByArchName and reposByImageTypeName on the
\* names of the descriptors.
C9_Adapters ==
    /\ (op = "ReposByArch" /\ ~IsNil(args[1].distro)) =>
          Result(ret, err) =
             ReposByArchName(r, args[1].distro.name, args[1].name, args[2])
    /\ (op = "ReposByImageType"
          /\ ~IsNil(args[1].arch) /\ ~IsNil(args[1].arch.distro)) =>
          Result(ret, err) =
             reposByImageTypeName(r, args[1].arch.distro.name,
                                  args[1].arch.name, args[1].name)

C9_Witness ==
    /\ op = "ReposByArch"
    /\ ~IsNil(args[1].distro)
    /\ ~args[2]
    /\ err = NoError
    /\ ret # <<>>
    /\ ret # Stored(args[1].distro.name, args[1].name)

\* C10: for a present pair, ReposByArchName(.., false) is a subsequence of
\* reposByImageTypeName(.., t), which is a subsequence of
\* ReposByArchName(.., true); they are equal when t is in no tag sequence.
C10_Sandwich ==
    (op = "reposByImageTypeName" /\ Present(args[1], args[2])) =>
        LET untagged == ReposByArchName(r, args[1], args[2], FALSE).repos
            all == ReposByArchName(r, args[1], args[2], TRUE).repos
        IN
        /\ IsSubseq(untagged, ret)
        /\ IsSubseq(ret, all)
        /\ (\A i \in DOMAIN all : \A j \in DOMAIN all[i].ImageTypeTags :
               all[i].ImageTypeTags[j] # args[3]) => ret = untagged

C10_Witness ==
    /\ op = "reposByImageTypeName"
    /\ Present(args[1], args[2])
    /\ args[3] = "vhd"
    /\ ret # <<>>
    /\ ret # Stored(args[1], args[2])

====
